---- MODULE Spec2Model ----
(***************************************************************************)
(* Model of the sudoku ledger contract (src/src/lib.rs) and of the grid    *)
(* geometry it rests on (src/src/board/positions.rs).                      *)
(*                                                                         *)
(* Conventions.  Rust arrays are indexed from 0 and TLA+ tuples from 1, so *)
(* a table T of the source is read as T[i + 1].  A Set<Cell> of the source *)
(* is a bit mask; a mask is modelled by the set of its bit positions, a    *)
(* left shift adds the shift amount to every position, `|` is \cup and `^` *)
(* is the symmetric difference.  No mask of the geometry layer has a bit   *)
(* above 80, so the width of the machine word plays no role.               *)
(* Option<T> is modelled by a sequence: None is << >>, Some(x) is <<x>>.   *)
(***************************************************************************)
EXTENDS Integers, Sequences, FiniteSets, TLC

(***************************************************************************)
(* Geometry layer: src/src/board/positions.rs                              *)
(***************************************************************************)

COL_OFFSET == 9
BLOCK_OFFSET == 18

Cells == 0 .. 80
Houses == 0 .. 26

Positions == 0 .. 8
MiniLines == 0 .. 53
Chutes == 0 .. 5
Digits == 1 .. 9

BLOCK ==
  <<0, 0, 0, 1, 1, 1, 2, 2, 2,
    0, 0, 0, 1, 1, 1, 2, 2, 2,
    0, 0, 0, 1, 1, 1, 2, 2, 2,
    3, 3, 3, 4, 4, 4, 5, 5, 5,
    3, 3, 3, 4, 4, 4, 5, 5, 5,
    3, 3, 3, 4, 4, 4, 5, 5, 5,
    6, 6, 6, 7, 7, 7, 8, 8, 8,
    6, 6, 6, 7, 7, 7, 8, 8, 8,
    6, 6, 6, 7, 7, 7, 8, 8, 8>>

CELLS_BY_HOUSE ==
  <<<<0, 1, 2, 3, 4, 5, 6, 7, 8>>,
    <<9, 10, 11, 12, 13, 14, 15, 16, 17>>,
    <<18, 19, 20, 21, 22, 23, 24, 25, 26>>,
    <<27, 28, 29, 30, 31, 32, 33, 34, 35>>,
    <<36, 37, 38, 39, 40, 41, 42, 43, 44>>,
    <<45, 46, 47, 48, 49, 50, 51, 52, 53>>,
    <<54, 55, 56, 57, 58, 59, 60, 61, 62>>,
    <<63, 64, 65, 66, 67, 68, 69, 70, 71>>,
    <<72, 73, 74, 75, 76, 77, 78, 79, 80>>,
    <<0, 9, 18, 27, 36, 45, 54, 63, 72>>,
    <<1, 10, 19, 28, 37, 46, 55, 64, 73>>,
    <<2, 11, 20, 29, 38, 47, 56, 65, 74>>,
    <<3, 12, 21, 30, 39, 48, 57, 66, 75>>,
    <<4, 13, 22, 31, 40, 49, 58, 67, 76>>,
    <<5, 14, 23, 32, 41, 50, 59, 68, 77>>,
    <<6, 15, 24, 33, 42, 51, 60, 69, 78>>,
    <<7, 16, 25, 34, 43, 52, 61, 70, 79>>,
    <<8, 17, 26, 35, 44, 53, 62, 71, 80>>,
    <<0, 1, 2, 9, 10, 11, 18, 19, 20>>,
    <<3, 4, 5, 12, 13, 14, 21, 22, 23>>,
    <<6, 7, 8, 15, 16, 17, 24, 25, 26>>,
    <<27, 28, 29, 36, 37, 38, 45, 46, 47>>,
    <<30, 31, 32, 39, 40, 41, 48, 49, 50>>,
    <<33, 34, 35, 42, 43, 44, 51, 52, 53>>,
    <<54, 55, 56, 63, 64, 65, 72, 73, 74>>,
    <<57, 58, 59, 66, 67, 68, 75, 76, 77>>,
    <<60, 61, 62, 69, 70, 71, 78, 79, 80>>>>

HOUSE_NEIGHBORS_OF_CELL ==
  <<<<1, 2, 3, 4, 5, 6, 7, 8, 9, 10, 11, 18, 19, 20, 27, 36, 45, 54, 63, 72>>,
    <<0, 2, 3, 4, 5, 6, 7, 8, 9, 10, 11, 18, 19, 20, 28, 37, 46, 55, 64, 73>>,
    <<0, 1, 3, 4, 5, 6, 7, 8, 9, 10, 11, 18, 19, 20, 29, 38, 47, 56, 65, 74>>,
    <<0, 1, 2, 4, 5, 6, 7, 8, 12, 13, 14, 21, 22, 23, 30, 39, 48, 57, 66, 75>>,
    <<0, 1, 2, 3, 5, 6, 7, 8, 12, 13, 14, 21, 22, 23, 31, 40, 49, 58, 67, 76>>,
    <<0, 1, 2, 3, 4, 6, 7, 8, 12, 13, 14, 21, 22, 23, 32, 41, 50, 59, 68, 77>>,
    <<0, 1, 2, 3, 4, 5, 7, 8, 15, 16, 17, 24, 25, 26, 33, 42, 51, 60, 69, 78>>,
    <<0, 1, 2, 3, 4, 5, 6, 8, 15, 16, 17, 24, 25, 26, 34, 43, 52, 61, 70, 79>>,
    <<0, 1, 2, 3, 4, 5, 6, 7, 15, 16, 17, 24, 25, 26, 35, 44, 53, 62, 71, 80>>,
    <<0, 1, 2, 10, 11, 12, 13, 14, 15, 16, 17, 18, 19, 20, 27, 36, 45, 54, 63, 72>>,
    <<0, 1, 2, 9, 11, 12, 13, 14, 15, 16, 17, 18, 19, 20, 28, 37, 46, 55, 64, 73>>,
    <<0, 1, 2, 9, 10, 12, 13, 14, 15, 16, 17, 18, 19, 20, 29, 38, 47, 56, 65, 74>>,
    <<3, 4, 5, 9, 10, 11, 13, 14, 15, 16, 17, 21, 22, 23, 30, 39, 48, 57, 66, 75>>,
    <<3, 4, 5, 9, 10, 11, 12, 14, 15, 16, 17, 21, 22, 23, 31, 40, 49, 58, 67, 76>>,
    <<3, 4, 5, 9, 10, 11, 12, 13, 15, 16, 17, 21, 22, 23, 32, 41, 50, 59, 68, 77>>,
    <<6, 7, 8, 9, 10, 11, 12, 13, 14, 16, 17, 24, 25, 26, 33, 42, 51, 60, 69, 78>>,
    <<6, 7, 8, 9, 10, 11, 12, 13, 14, 15, 17, 24, 25, 26, 34, 43, 52, 61, 70, 79>>,
    <<6, 7, 8, 9, 10, 11, 12, 13, 14, 15, 16, 24, 25, 26, 35, 44, 53, 62, 71, 80>>,
    <<0, 1, 2, 9, 10, 11, 19, 20, 21, 22, 23, 24, 25, 26, 27, 36, 45, 54, 63, 72>>,
    <<0, 1, 2, 9, 10, 11, 18, 20, 21, 22, 23, 24, 25, 26, 28, 37, 46, 55, 64, 73>>,
    <<0, 1, 2, 9, 10, 11, 18, 19, 21, 22, 23, 24, 25, 26, 29, 38, 47, 56, 65, 74>>,
    <<3, 4, 5, 12, 13, 14, 18, 19, 20, 22, 23, 24, 25, 26, 30, 39, 48, 57, 66, 75>>,
    <<3, 4, 5, 12, 13, 14, 18, 19, 20, 21, 23, 24, 25, 26, 31, 40, 49, 58, 67, 76>>,
    <<3, 4, 5, 12, 13, 14, 18, 19, 20, 21, 22, 24, 25, 26, 32, 41, 50, 59, 68, 77>>,
    <<6, 7, 8, 15, 16, 17, 18, 19, 20, 21, 22, 23, 25, 26, 33, 42, 51, 60, 69, 78>>,
    <<6, 7, 8, 15, 16, 17, 18, 19, 20, 21, 22, 23, 24, 26, 34, 43, 52, 61, 70, 79>>,
    <<6, 7, 8, 15, 16, 17, 18, 19, 20, 21, 22, 23, 24, 25, 35, 44, 53, 62, 71, 80>>,
    <<0, 9, 18, 28, 29, 30, 31, 32, 33, 34, 35, 36, 37, 38, 45, 46, 47, 54, 63, 72>>,
    <<1, 10, 19, 27, 29, 30, 31, 32, 33, 34, 35, 36, 37, 38, 45, 46, 47, 55, 64, 73>>,
    <<2, 11, 20, 27, 28, 30, 31, 32, 33, 34, 35, 36, 37, 38, 45, 46, 47, 56, 65, 74>>,
    <<3, 12, 21, 27, 28, 29, 31, 32, 33, 34, 35, 39, 40, 41, 48, 49, 50, 57, 66, 75>>,
    <<4, 13, 22, 27, 28, 29, 30, 32, 33, 34, 35, 39, 40, 41, 48, 49, 50, 58, 67, 76>>,
    <<5, 14, 23, 27, 28, 29, 30, 31, 33, 34, 35, 39, 40, 41, 48, 49, 50, 59, 68, 77>>,
    <<6, 15, 24, 27, 28, 29, 30, 31, 32, 34, 35, 42, 43, 44, 51, 52, 53, 60, 69, 78>>,
    <<7, 16, 25, 27, 28, 29, 30, 31, 32, 33, 35, 42, 43, 44, 51, 52, 53, 61, 70, 79>>,
    <<8, 17, 26, 27, 28, 29, 30, 31, 32, 33, 34, 42, 43, 44, 51, 52, 53, 62, 71, 80>>,
    <<0, 9, 18, 27, 28, 29, 37, 38, 39, 40, 41, 42, 43, 44, 45, 46, 47, 54, 63, 72>>,
    <<1, 10, 19, 27, 28, 29, 36, 38, 39, 40, 41, 42, 43, 44, 45, 46, 47, 55, 64, 73>>,
    <<2, 11, 20, 27, 28, 29, 36, 37, 39, 40, 41, 42, 43, 44, 45, 46, 47, 56, 65, 74>>,
    <<3, 12, 21, 30, 31, 32, 36, 37, 38, 40, 41, 42, 43, 44, 48, 49, 50, 57, 66, 75>>,
    <<4, 13, 22, 30, 31, 32, 36, 37, 38, 39, 41, 42, 43, 44, 48, 49, 50, 58, 67, 76>>,
    <<5, 14, 23, 30, 31, 32, 36, 37, 38, 39, 40, 42, 43, 44, 48, 49, 50, 59, 68, 77>>,
    <<6, 15, 24, 33, 34, 35, 36, 37, 38, 39, 40, 41, 43, 44, 51, 52, 53, 60, 69, 78>>,
    <<7, 16, 25, 33, 34, 35, 36, 37, 38, 39, 40, 41, 42, 44, 51, 52, 53, 61, 70, 79>>,
    <<8, 17, 26, 33, 34, 35, 36, 37, 38, 39, 40, 41, 42, 43, 51, 52, 53, 62, 71, 80>>,
    <<0, 9, 18, 27, 28, 29, 36, 37, 38, 46, 47, 48, 49, 50, 51, 52, 53, 54, 63, 72>>,
    <<1, 10, 19, 27, 28, 29, 36, 37, 38, 45, 47, 48, 49, 50, 51, 52, 53, 55, 64, 73>>,
    <<2, 11, 20, 27, 28, 29, 36, 37, 38, 45, 46, 48, 49, 50, 51, 52, 53, 56, 65, 74>>,
    <<3, 12, 21, 30, 31, 32, 39, 40, 41, 45, 46, 47, 49, 50, 51, 52, 53, 57, 66, 75>>,
    <<4, 13, 22, 30, 31, 32, 39, 40, 41, 45, 46, 47, 48, 50, 51, 52, 53, 58, 67, 76>>,
    <<5, 14, 23, 30, 31, 32, 39, 40, 41, 45, 46, 47, 48, 49, 51, 52, 53, 59, 68, 77>>,
    <<6, 15, 24, 33, 34, 35, 42, 43, 44, 45, 46, 47, 48, 49, 50, 52, 53, 60, 69, 78>>,
    <<7, 16, 25, 33, 34, 35, 42, 43, 44, 45, 46, 47, 48, 49, 50, 51, 53, 61, 70, 79>>,
    <<8, 17, 26, 33, 34, 35, 42, 43, 44, 45, 46, 47, 48, 49, 50, 51, 52, 62, 71, 80>>,
    <<0, 9, 18, 27, 36, 45, 55, 56, 57, 58, 59, 60, 61, 62, 63, 64, 65, 72, 73, 74>>,
    <<1, 10, 19, 28, 37, 46, 54, 56, 57, 58, 59, 60, 61, 62, 63, 64, 65, 72, 73, 74>>,
    <<2, 11, 20, 29, 38, 47, 54, 55, 57, 58, 59, 60, 61, 62, 63, 64, 65, 72, 73, 74>>,
    <<3, 12, 21, 30, 39, 48, 54, 55, 56, 58, 59, 60, 61, 62, 66, 67, 68, 75, 76, 77>>,
    <<4, 13, 22, 31, 40, 49, 54, 55, 56, 57, 59, 60, 61, 62, 66, 67, 68, 75, 76, 77>>,
    <<5, 14, 23, 32, 41, 50, 54, 55, 56, 57, 58, 60, 61, 62, 66, 67, 68, 75, 76, 77>>,
    <<6, 15, 24, 33, 42, 51, 54, 55, 56, 57, 58, 59, 61, 62, 69, 70, 71, 78, 79, 80>>,
    <<7, 16, 25, 34, 43, 52, 54, 55, 56, 57, 58, 59, 60, 62, 69, 70, 71, 78, 79, 80>>,
    <<8, 17, 26, 35, 44, 53, 54, 55, 56, 57, 58, 59, 60, 61, 69, 70, 71, 78, 79, 80>>,
    <<0, 9, 18, 27, 36, 45, 54, 55, 56, 64, 65, 66, 67, 68, 69, 70, 71, 72, 73, 74>>,
    <<1, 10, 19, 28, 37, 46, 54, 55, 56, 63, 65, 66, 67, 68, 69, 70, 71, 72, 73, 74>>,
    <<2, 11, 20, 29, 38, 47, 54, 55, 56, 63, 64, 66, 67, 68, 69, 70, 71, 72, 73, 74>>,
    <<3, 12, 21, 30, 39, 48, 57, 58, 59, 63, 64, 65, 67, 68, 69, 70, 71, 75, 76, 77>>,
    <<4, 13, 22, 31, 40, 49, 57, 58, 59, 63, 64, 65, 66, 68, 69, 70, 71, 75, 76, 77>>,
    <<5, 14, 23, 32, 41, 50, 57, 58, 59, 63, 64, 65, 66, 67, 69, 70, 71, 75, 76, 77>>,
    <<6, 15, 24, 33, 42, 51, 60, 61, 62, 63, 64, 65, 66, 67, 68, 70, 71, 78, 79, 80>>,
    <<7, 16, 25, 34, 43, 52, 60, 61, 62, 63, 64, 65, 66, 67, 68, 69, 71, 78, 79, 80>>,
    <<8, 17, 26, 35, 44, 53, 60, 61, 62, 63, 64, 65, 66, 67, 68, 69, 70, 78, 79, 80>>,
    <<0, 9, 18, 27, 36, 45, 54, 55, 56, 63, 64, 65, 73, 74, 75, 76, 77, 78, 79, 80>>,
    <<1, 10, 19, 28, 37, 46, 54, 55, 56, 63, 64, 65, 72, 74, 75, 76, 77, 78, 79, 80>>,
    <<2, 11, 20, 29, 38, 47, 54, 55, 56, 63, 64, 65, 72, 73, 75, 76, 77, 78, 79, 80>>,
    <<3, 12, 21, 30, 39, 48, 57, 58, 59, 66, 67, 68, 72, 73, 74, 76, 77, 78, 79, 80>>,
    <<4, 13, 22, 31, 40, 49, 57, 58, 59, 66, 67, 68, 72, 73, 74, 75, 77, 78, 79, 80>>,
    <<5, 14, 23, 32, 41, 50, 57, 58, 59, 66, 67, 68, 72, 73, 74, 75, 76, 78, 79, 80>>,
    <<6, 15, 24, 33, 42, 51, 60, 61, 62, 69, 70, 71, 72, 73, 74, 75, 76, 77, 79, 80>>,
    <<7, 16, 25, 34, 43, 52, 60, 61, 62, 69, 70, 71, 72, 73, 74, 75, 76, 77, 78, 80>>,
    <<8, 17, 26, 35, 44, 53, 60, 61, 62, 69, 70, 71, 72, 73, 74, 75, 76, 77, 78, 79>>>>

MINILINE_NEIGHBORS ==
  <<<<<<1, 2>>, <<3, 6>>>>,
    <<<<2, 0>>, <<4, 7>>>>,
    <<<<0, 1>>, <<5, 8>>>>,
    <<<<4, 5>>, <<6, 0>>>>,
    <<<<5, 3>>, <<7, 1>>>>,
    <<<<3, 4>>, <<8, 2>>>>,
    <<<<7, 8>>, <<0, 3>>>>,
    <<<<8, 6>>, <<1, 4>>>>,
    <<<<6, 7>>, <<2, 5>>>>,
    <<<<10, 11>>, <<12, 15>>>>,
    <<<<11, 9>>, <<13, 16>>>>,
    <<<<9, 10>>, <<14, 17>>>>,
    <<<<13, 14>>, <<15, 9>>>>,
    <<<<14, 12>>, <<16, 10>>>>,
    <<<<12, 13>>, <<17, 11>>>>,
    <<<<16, 17>>, <<9, 12>>>>,
    <<<<17, 15>>, <<10, 13>>>>,
    <<<<15, 16>>, <<11, 14>>>>,
    <<<<19, 20>>, <<21, 24>>>>,
    <<<<20, 18>>, <<22, 25>>>>,
    <<<<18, 19>>, <<23, 26>>>>,
    <<<<22, 23>>, <<24, 18>>>>,
    <<<<23, 21>>, <<25, 19>>>>,
    <<<<21, 22>>, <<26, 20>>>>,
    <<<<25, 26>>, <<18, 21>>>>,
    <<<<26, 24>>, <<19, 22>>>>,
    <<<<24, 25>>, <<20, 23>>>>,
    <<<<28, 29>>, <<30, 33>>>>,
    <<<<29, 27>>, <<31, 34>>>>,
    <<<<27, 28>>, <<32, 35>>>>,
    <<<<31, 32>>, <<33, 27>>>>,
    <<<<32, 30>>, <<34, 28>>>>,
    <<<<30, 31>>, <<35, 29>>>>,
    <<<<34, 35>>, <<27, 30>>>>,
    <<<<35, 33>>, <<28, 31>>>>,
    <<<<33, 34>>, <<29, 32>>>>,
    <<<<37, 38>>, <<39, 42>>>>,
    <<<<38, 36>>, <<40, 43>>>>,
    <<<<36, 37>>, <<41, 44>>>>,
    <<<<40, 41>>, <<42, 36>>>>,
    <<<<41, 39>>, <<43, 37>>>>,
    <<<<39, 40>>, <<44, 38>>>>,
    <<<<43, 44>>, <<36, 39>>>>,
    <<<<44, 42>>, <<37, 40>>>>,
    <<<<42, 43>>, <<38, 41>>>>,
    <<<<46, 47>>, <<48, 51>>>>,
    <<<<47, 45>>, <<49, 52>>>>,
    <<<<45, 46>>, <<50, 53>>>>,
    <<<<49, 50>>, <<51, 45>>>>,
    <<<<50, 48>>, <<52, 46>>>>,
    <<<<48, 49>>, <<53, 47>>>>,
    <<<<52, 53>>, <<45, 48>>>>,
    <<<<53, 51>>, <<46, 49>>>>,
    <<<<51, 52>>, <<47, 50>>>>>>

row(cell) == cell \div 9

col(cell) == cell % 9

\* mutant: the table read with row and column exchanged
block_transposed(cell) == BLOCK[(9 * (cell % 9)) + (cell \div 9) + 1]

block(cell) == BLOCK[cell + 1]

band(cell) == cell \div 27

stack(cell) == col(cell) \div 3

\* mask << n
Shl(mask, n) == {b + n : b \in mask}

\* a ^ b on masks
Xor(a, b) == (a \ b) \cup (b \ a)

\* the octal literals of into_cells!, as sets of bit positions
Mask_0o777 == 0 .. 8

Mask_0o001x9 == {9 * i : i \in 0 .. 8}

Mask_0o007x3 == {9 * i + j : i \in 0 .. 2, j \in 0 .. 2}

Cell_cells(cell) == Shl({0}, cell)

Row_cells(r) == Shl(Mask_0o777, 9 * r)

Col_cells(c) == Shl(Mask_0o001x9, c)

Block_cells_shift(b) == ((b \div 3) * 27) + ((b % 3) * 3)

\* mutant: the stack offset not scaled by 3
Block_cells_unscaled(b) == Shl(Mask_0o007x3, ((b \div 3) * 27) + (b % 3))

Block_cells(b) == Shl(Mask_0o007x3, Block_cells_shift(b))

\* HouseType: <<"Row", r>>, <<"Col", c>> or <<"Block", b>>
House_categorize(h) ==
  IF h \in 0 .. 8 THEN <<"Row", h>>
  ELSE IF h \in 9 .. 17 THEN <<"Col", h - COL_OFFSET>>
  ELSE <<"Block", h - BLOCK_OFFSET>>

House_cells(h) ==
  LET t == House_categorize(h)
  IN  CASE t[1] = "Row" -> Row_cells(t[2])
        [] t[1] = "Col" -> Col_cells(t[2])
        [] t[1] = "Block" -> Block_cells(t[2])

\* impl_from!: the embeddings into House
Row_house(r) == r

\* mutant: the column embedded without its offset
Col_house_unshifted(c) == c

Col_house(c) == c + COL_OFFSET

Block_house(b) == b + BLOCK_OFFSET

\* impl_from!: the container of a cell and the cell's position in it
Cell_row(c) == row(c)

Cell_col(c) == col(c)

\* mutant: band and stack exchanged
Cell_block_swapped(c) == band(c) + 3 * stack(c)

Cell_block(c) == 3 * band(c) + stack(c)

Cell_row_pos(c) == col(c)

Cell_col_pos(c) == row(c)

Cell_block_pos(c) == ((row(c) % 3) * 3) + (col(c) % 3)

Cell_houses(c) ==
  <<Row_house(Cell_row(c)), Col_house(Cell_col(c)), Block_house(Cell_block(c))>>

Cell_neighbors(c) == HOUSE_NEIGHBORS_OF_CELL[c + 1]

\* mutant: the cell itself not removed
Cell_neighbors_set_with_self(c) ==
  Row_cells(Cell_row(c)) \cup Col_cells(Cell_col(c)) \cup Block_cells(Cell_block(c))

Cell_neighbors_set(c) ==
  Xor(Row_cells(Cell_row(c)) \cup Col_cells(Cell_col(c)) \cup Block_cells(Cell_block(c)),
      Cell_cells(c))

Row_cell_at(r, pos) == r * 9 + pos

Col_cell_at(c, pos) == pos * 9 + c

\* mutant: the position read column by column
Block_cell_at_transposed(b, pos) ==
  LET band_ == b \div 3
      stack_ == b % 3
      row_in_band == pos % 3
      col_in_stack == pos \div 3
      row_ == band_ * 3 + row_in_band
      col_ == stack_ * 3 + col_in_stack
  IN  row_ * 9 + col_

Block_cell_at(b, pos) ==
  LET band_ == b \div 3
      stack_ == b % 3
      row_in_band == pos \div 3
      col_in_stack == pos % 3
      row_ == band_ * 3 + row_in_band
      col_ == stack_ * 3 + col_in_stack
  IN  row_ * 9 + col_

House_cell_at(h, pos) ==
  LET t == House_categorize(h)
  IN  CASE t[1] = "Row" -> Row_cell_at(t[2], pos)
        [] t[1] = "Col" -> Col_cell_at(t[2], pos)
        [] t[1] = "Block" -> Block_cell_at(t[2], pos)

\* the elements of a tuple
Range(s) == {s[i] : i \in DOMAIN s}

\* further octal literals of into_cells!
Mask_0o777x3 == 0 .. 26

Mask_0o007x9 == {9 * i + j : i \in 0 .. 8, j \in 0 .. 2}

Mask_0o7 == 0 .. 2

Mask_0o001x3 == {9 * i : i \in 0 .. 2}

Band_cells(b) == Shl(Mask_0o777x3, 27 * b)

\* mutant: the stack index not scaled by 3
Stack_cells_unscaled(s) == Shl(Mask_0o007x9, s)

Stack_cells(s) == Shl(Mask_0o007x9, 3 * s)

MiniRow_cells(mr) == Shl(Mask_0o7, 3 * mr)

\* mutant: the counting system the source gave up, mc / 9 * 27 + mc % 9
MiniCol_cells_old_counting(mc) == Shl(Mask_0o001x3, ((mc \div 9) * 27) + (mc % 9))

\* band = mc % 3, col = mc / 3; `<<` binds weaker than `+`
MiniCol_cells(mc) == Shl(Mask_0o001x3, ((mc % 3) * 27) + (mc \div 3))

\* LineType: <<"Row", r>> or <<"Col", c>>
Line_categorize(l) ==
  IF l < COL_OFFSET THEN <<"Row", l>> ELSE <<"Col", l - COL_OFFSET>>

Line_cells(l) ==
  LET t == Line_categorize(l)
  IN  IF t[1] = "Row" THEN Row_cells(t[2]) ELSE Col_cells(t[2])

\* ChuteType: <<"Band", b>> or <<"Stack", s>>
Chute_categorize(ch) == IF ch < 3 THEN <<"Band", ch>> ELSE <<"Stack", ch - 3>>

Chute_cells(ch) ==
  LET t == Chute_categorize(ch)
  IN  IF t[1] = "Band" THEN Band_cells(t[2]) ELSE Stack_cells(t[2])

\* MiniLineType: <<"MiniRow", mr>> or <<"MiniCol", mc>>
MiniLine_categorize(ml) ==
  IF ml < 27 THEN <<"MiniRow", ml>> ELSE <<"MiniCol", ml - 27>>

MiniLine_cells(ml) ==
  LET t == MiniLine_categorize(ml)
  IN  IF t[1] = "MiniRow" THEN MiniRow_cells(t[2]) ELSE MiniCol_cells(t[2])

\* impl_from!: the embeddings into Line and Chute
Row_line(r) == r

Col_line(c) == c + COL_OFFSET

Band_chute(b) == b

Stack_chute(s) == s + 3

\* Chute::minilines: MiniLine(self.0 * 9 + i) for i in 0..9
Chute_minilines(ch) == [i \in 1 .. 9 |-> (ch * 9) + (i - 1)]

\* MiniLine::neighbors: <<line neighbours, block neighbours>>
MiniLine_neighbors(ml) == MINILINE_NEIGHBORS[ml + 1]

\* mutant: the chute taken from the position within the chute
MiniLine_chute_of_position(ml) == (ml % 9) \div 3

MiniLine_chute(ml) == ml \div 9

RECURSIVE Set_iter(_)
\* iteration over a Set: the lowest set bit is extracted, repeatedly
Set_iter(mask) ==
  IF mask = {} THEN << >>
  ELSE LET low == CHOOSE b \in mask : \A o \in mask : b <= o
       IN  <<low>> \o Set_iter(mask \ {low})

(***************************************************************************)
(* Board interchange, validity check, solver and generator.                *)
(* src/src/lib.rs calls Sudoku::from_two_dimensional_array,                *)
(* to_two_dimensional_array, is_solved, solution and generate; their       *)
(* module (board/sudoku.rs) is not part of the sources at hand, so they    *)
(* are modelled from sections 4.3, 4.5, 4.6 and 6 of the specification.    *)
(* A Sudoku is its 81 bytes, 0 for a blank cell; cell c is entry c + 1.    *)
(***************************************************************************)

\* [[u8; 9]; 9], row-major: entry [r][c] is cell 9r + c
to_two_dimensional_array(s) ==
  [r \in 1 .. 9 |-> [c \in 1 .. 9 |-> s[9 * (r - 1) + (c - 1) + 1]]]

\* mutant: the array read column by column
from_two_dimensional_array_transposed(array) ==
  [i \in 1 .. 81 |-> array[((i - 1) % 9) + 1][((i - 1) \div 9) + 1]]

from_two_dimensional_array(array) ==
  [i \in 1 .. 81 |-> array[((i - 1) \div 9) + 1][((i - 1) % 9) + 1]]

\* the cells of every house, computed once
CellsOfHouse == [h \in Houses |-> House_cells(h)]

\* all 81 cells placed and every house's placed digits are the full digit set
is_solved(s) ==
  /\ \A c \in Cells : s[c + 1] # 0
  /\ \A h \in Houses : {s[c + 1] : c \in CellsOfHouse[h]} = Digits

\* the digits still possible in a blank cell: those no neighbour holds
Candidates(s, c) == Digits \ {s[n + 1] : n \in Range(Cell_neighbors(c))}

Unplaced(s) == {c \in Cells : s[c + 1] = 0}

\* no two cells of a house hold the same placed digit
Consistent(s) ==
  \A h \in Houses :
    LET placed == {c \in CellsOfHouse[h] : s[c + 1] # 0}
    IN  Cardinality({s[c + 1] : c \in placed}) = Cardinality(placed)

Place(s, c, d) == [s EXCEPT ![c + 1] = d]

\* the unplaced cell with the fewest candidates, the lowest index on a tie
SearchCell(s) ==
  LET u == Unplaced(s)
      n == [c \in u |-> Cardinality(Candidates(s, c))]
  IN  CHOOSE c \in u : \A o \in u : n[c] < n[o] \/ (n[c] = n[o] /\ c <= o)

RECURSIVE CountFrom(_, _, _, _)
RECURSIVE Search(_, _)
\* the solutions found by trying the digits ds of cell c in ascending order,
\* stopping at the cap
CountFrom(s, c, ds, cap) ==
  IF ds = {} \/ cap = 0 THEN 0
  ELSE LET d == CHOOSE x \in ds : \A y \in ds : x <= y
           n == Search(Place(s, c, d), cap)
       IN  n + CountFrom(s, c, ds \ {d}, cap - n)

\* backtracking search on a board without conflicts: a digit is placed only
\* where no neighbour holds it, so no placement creates a conflict
Search(s, cap) ==
  IF cap = 0 THEN 0
  ELSE IF Unplaced(s) = {} THEN 1
  ELSE LET c == SearchCell(s)
       IN  CountFrom(s, c, Candidates(s, c), cap)

\* the number of solutions of s, counted up to cap; a board with two equal
\* digits in a house has none
CountSolutions(s, cap) == IF Consistent(s) THEN Search(s, cap) ELSE 0

RECURSIVE FirstFrom(_, _, _)
RECURSIVE First(_)
FirstFrom(s, c, ds) ==
  IF ds = {} THEN << >>
  ELSE LET d == CHOOSE x \in ds : \A y \in ds : x <= y
           r == First(Place(s, c, d))
       IN  IF r # << >> THEN r ELSE FirstFrom(s, c, ds \ {d})

\* the first solution the search reaches, if any
First(s) ==
  IF Unplaced(s) = {} THEN <<s>>
  ELSE LET c == SearchCell(s)
       IN  FirstFrom(s, c, Candidates(s, c))

\* Some(the solution) of a sudoku that has exactly one, else None
solve_unique(s) == IF CountSolutions(s, 2) = 1 THEN First(s) ELSE << >>

\* Two fully solved grids the randomized fill of the generator can produce.
FullGrid1 ==
  <<5, 3, 4, 6, 7, 8, 9, 1, 2,
    6, 7, 2, 1, 9, 5, 3, 4, 8,
    1, 9, 8, 3, 4, 2, 5, 6, 7,
    8, 5, 9, 7, 6, 1, 4, 2, 3,
    4, 2, 6, 8, 5, 3, 7, 9, 1,
    7, 1, 3, 9, 2, 4, 8, 5, 6,
    9, 6, 1, 5, 3, 7, 2, 8, 4,
    2, 8, 7, 4, 1, 9, 6, 3, 5,
    3, 4, 5, 2, 8, 6, 1, 7, 9>>

FullGrid2 ==
  <<1, 2, 3, 4, 5, 6, 7, 8, 9,
    4, 5, 6, 7, 8, 9, 1, 2, 3,
    7, 8, 9, 1, 2, 3, 4, 5, 6,
    2, 3, 4, 5, 6, 7, 8, 9, 1,
    5, 6, 7, 8, 9, 1, 2, 3, 4,
    8, 9, 1, 2, 3, 4, 5, 6, 7,
    3, 4, 5, 6, 7, 8, 9, 1, 2,
    6, 7, 8, 9, 1, 2, 3, 4, 5,
    9, 1, 2, 3, 4, 5, 6, 7, 8>>

FullGrids == <<FullGrid1, FullGrid2>>

\* The cells the generator may try to clear, and how many it tries.  Cells
\* 3, 4, 30, 31 of FullGrid1 hold 6 7 / 7 6: clearing all four leaves two
\* solutions, so the uniqueness oracle has a clearing to reject.
ClearPool == {0, 3, 4, 30, 31}
MaxClearTries == 4

\* the sequences of n distinct cells of ClearPool
Orders(n) ==
  {o \in [1 .. n -> ClearPool] : \A i, j \in 1 .. n : i # j => o[i] # o[j]}

AllOrders == UNION {Orders(n) : n \in 0 .. MaxClearTries}

\* A seed fixes what the seeded generator draws: the full grid and the order in
\* which it tries to clear cells.
AllSeeds == {[grid |-> g, order |-> o] : g \in 1 .. 2, o \in AllOrders}

RECURSIVE ClearCells_unchecked(_, _)
\* mutant: every cell of order cleared, the number of solutions not asked for
ClearCells_unchecked(s, order) ==
  IF order = << >> THEN s
  ELSE ClearCells_unchecked(Place(s, Head(order), 0), Tail(order))

RECURSIVE ClearCells(_, _)
\* clear the cells of order one by one, keeping a cell cleared only if the
\* puzzle still has exactly one solution
ClearCells(s, order) ==
  IF order = << >> THEN s
  ELSE LET c == Head(order)
           t == Place(s, c, 0)
       IN  IF CountSolutions(t, 2) = 1
           THEN ClearCells(t, Tail(order))
           ELSE ClearCells(s, Tail(order))

\* Sudoku::generate(rnd)
Generated_by(seed) == ClearCells(FullGrids[seed.grid], seed.order)

\* the puzzles of all seeds, computed once
PuzzleOf == [seed \in AllSeeds |-> Generated_by(seed)]

generate(seed) == PuzzleOf[seed]

\* the solutions of the generated puzzles, computed once
SolutionOf == [p \in {PuzzleOf[seed] : seed \in AllSeeds} |-> solve_unique(p)]

\* Sudoku::solution
solution(s) == IF s \in DOMAIN SolutionOf THEN SolutionOf[s] ELSE solve_unique(s)

(***************************************************************************)
(* The ledger contract: src/src/lib.rs                                     *)
(***************************************************************************)

PLAYER_SIZE == 403
LEADERBOARD_SIZE == 10

\* bounds of the model
ExtraAccounts == 1
MaxCalls == 5
MainCallers == 2
WarmGames == 2
MaxLateGames == 3
MaxDeleters == 1

\* account ids; one more than the leaderboard holds
Accounts == 1 .. (LEADERBOARD_SIZE + ExtraAccounts)

VARIABLES
  players,       \* Contract.players: UnorderedMap<AccountId, Player>
  top_by_count,  \* Contract.leaderboard.top_by_count: HashMap<AccountId, u128>
  top_by_time,   \* Contract.leaderboard.top_by_time: HashMap<AccountId, Timestamp>
  now,           \* env::block_timestamp_ms()
  call,          \* the last call: its inputs, and what it returned
  probe,         \* the last evaluation of a geometry or interchange function
  steps          \* the number of steps taken so far that count against a budget

vars == <<players, top_by_count, top_by_time, now, call, probe, steps>>

\* maps as functions over their key set
MapGet(m, k) == IF k \in DOMAIN m THEN <<m[k]>> ELSE << >>

MapInsert(m, k, v) == [x \in (DOMAIN m) \cup {k} |-> IF x = k THEN v ELSE m[x]]

MapRemove(m, k) == [x \in (DOMAIN m) \ {k} |-> m[x]]

EmptyMap == [x \in {} |-> 0]

\* iter().min_by_key / max_by_key over a HashMap: the iteration order is
\* unspecified, so any key holding the least (greatest) value can be the result
MinKeys(m) == {k \in DOMAIN m : \A j \in DOMAIN m : m[k] <= m[j]}

MaxKeys(m) == {k \in DOMAIN m : \A j \in DOMAIN m : m[k] >= m[j]}

\* mutant: the least entry not removed before the caller is inserted
work_player_count_keeping(tbc, caller, count) ==
  IF Cardinality(DOMAIN tbc) < LEADERBOARD_SIZE
  THEN {MapInsert(tbc, caller, count)}
  ELSE {IF tbc[key] <= count THEN MapInsert(tbc, caller, count) ELSE tbc :
          key \in MinKeys(tbc)}

\* Leaderboard::work_player, first half: the maps top_by_count can become
work_player_count(tbc, caller, count) ==
  IF Cardinality(DOMAIN tbc) < LEADERBOARD_SIZE
  THEN {MapInsert(tbc, caller, count)}
  ELSE {IF tbc[key] <= count
        THEN IF key = caller
             THEN MapInsert(tbc, caller, count)
             ELSE MapInsert(MapRemove(tbc, key), caller, count)
        ELSE tbc : key \in MinKeys(tbc)}

\* Leaderboard::work_player, second half: the maps top_by_time can become
work_player_time(tbt, caller, best) ==
  IF Cardinality(DOMAIN tbt) < LEADERBOARD_SIZE
  THEN {MapInsert(tbt, caller, best)}
  ELSE {IF tbt[key] >= best
        THEN IF key = caller
             THEN MapInsert(tbt, caller, best)
             ELSE MapInsert(MapRemove(tbt, key), caller, best)
        ELSE tbt : key \in MaxKeys(tbt)}

Player_new(seed, t) ==
  [sudoku |-> <<generate(seed)>>,
   generated_sudoku_count |-> 1,
   sloved_sudoku_count |-> 0,
   start_time |-> t,
   last_sloved_game |-> << >>,
   best_time |-> << >>]

\* mutant: the generated games not counted
Player_new_game_uncounted(self, seed, t) ==
  [sudoku |-> <<generate(seed)>>,
   generated_sudoku_count |-> self.generated_sudoku_count,
   sloved_sudoku_count |-> self.sloved_sudoku_count,
   start_time |-> t,
   last_sloved_game |-> self.last_sloved_game,
   best_time |-> self.best_time]

Player_new_game(self, seed, t) ==
  [sudoku |-> <<generate(seed)>>,
   generated_sudoku_count |-> self.generated_sudoku_count + 1,
   sloved_sudoku_count |-> self.sloved_sudoku_count,
   start_time |-> t,
   last_sloved_game |-> self.last_sloved_game,
   best_time |-> self.best_time]

\* time < self.best_time.unwrap_or(u64::MAX); an elapsed time of the model is
\* below u64::MAX
\* mutant: the time of the latest game always recorded
IsBetterTime_always(time, best) == TRUE

IsBetterTime(time, best) == best = << >> \/ time < best[1]

\* mutant: the solved count not increased
Player_finish_game_uncounted(self, t) ==
  LET time == t - self.start_time
  IN  [sudoku |-> << >>,
       generated_sudoku_count |-> self.generated_sudoku_count,
       sloved_sudoku_count |-> self.sloved_sudoku_count,
       start_time |-> t,
       last_sloved_game |->
         <<[sudoku |-> self.sudoku[1], time_start |-> self.start_time, time_end |-> t]>>,
       best_time |-> IF IsBetterTime(time, self.best_time) THEN <<time>> ELSE self.best_time]

Player_finish_game(self, t) ==
  LET time == t - self.start_time
  IN  [sudoku |-> << >>,
       generated_sudoku_count |-> self.generated_sudoku_count,
       sloved_sudoku_count |-> self.sloved_sudoku_count + 1,
       start_time |-> t,
       last_sloved_game |->
         <<[sudoku |-> self.sudoku[1], time_start |-> self.start_time, time_end |-> t]>>,
       best_time |-> IF IsBetterTime(time, self.best_time) THEN <<time>> ELSE self.best_time]

\* Player::get: the PlayerRequest view of a record
Player_get(self) ==
  [sudoku |-> IF self.sudoku # << >>
              THEN <<to_two_dimensional_array(self.sudoku[1])>> ELSE << >>,
   generated_sudoku_count |-> self.generated_sudoku_count,
   sloved_sudoku_count |-> self.sloved_sudoku_count,
   start_time |-> self.start_time,
   last_sloved_game |->
     IF self.last_sloved_game # << >>
     THEN <<[sudoku |-> to_two_dimensional_array(self.last_sloved_game[1].sudoku),
             time_end |-> self.last_sloved_game[1].time_end,
             time_start |-> self.last_sloved_game[1].time_start]>>
     ELSE << >>,
   best_time |-> self.best_time]

\* Player::sudoku_eq, for a record whose sudoku is Some; array[x][y] of the
\* source is array[x + 1][y + 1]
Player_sudoku_eq(self, array) ==
  LET internal_sudoku == to_two_dimensional_array(self.sudoku[1])
  IN  \A x \in 1 .. 9 : \A y \in 1 .. 9 :
        /\ ~(array[x][y] < 1 \/ array[x][y] > 9)
        /\ ~(internal_sudoku[x][y] # 0 /\ array[x][y] # array[x][y])

NoProbe == [kind |-> "none"]

NoCall == [op |-> "new", caller |-> 0, array |-> << >>, outcome |-> "return", value |-> << >>]

\* Contract::new
Init ==
  /\ players = EmptyMap
  /\ top_by_count = EmptyMap
  /\ top_by_time = EmptyMap
  /\ now = 0
  /\ call = NoCall
  /\ probe = NoProbe
  /\ steps = 0

\* Contract::start_game called by `caller`, with the block's random seed and the
\* attached deposit in units of env::STORAGE_PRICE_PER_BYTE.  UnorderedMap::insert
\* returns the value the key held before, which is what a registered caller gets
\* back; register_player panics on a wrong deposit, which reverts the call.
start_game(caller, seed, deposit) ==
  LET got == MapGet(players, caller)
  IN  /\ IF got # << >>
         THEN /\ players' = MapInsert(players, caller, Player_new_game(got[1], seed, now))
              /\ call' = [op |-> "start_game", caller |-> caller, array |-> << >>,
                          outcome |-> "return", value |-> <<Player_get(got[1])>>]
         ELSE IF deposit # PLAYER_SIZE
         THEN /\ players' = players
              /\ call' = [op |-> "start_game", caller |-> caller, array |-> << >>,
                          outcome |-> "panic", value |-> << >>]
         ELSE /\ players' = MapInsert(players, caller, Player_new(seed, now))
              /\ call' = [op |-> "start_game", caller |-> caller, array |-> << >>,
                          outcome |-> "return", value |-> <<Player_get(Player_new(seed, now))>>]
      /\ UNCHANGED <<top_by_count, top_by_time, now, probe>>

\* mutant: a registered caller with an active puzzle credited whatever the array
finish_game_unchecked(caller, array) ==
  LET got == MapGet(players, caller)
      returns(v) == [op |-> "finish_game", caller |-> caller, array |-> array,
                     outcome |-> "return", value |-> v]
  IN  /\ IF got = << >> \/ got[1].sudoku = << >>
         THEN /\ UNCHANGED <<players, top_by_count, top_by_time>>
              /\ call' = returns(<< >>)
         ELSE LET new_player == Player_finish_game(got[1], now)
              IN  /\ top_by_count' \in
                       work_player_count(top_by_count, caller, new_player.sloved_sudoku_count)
                  /\ top_by_time' \in
                       work_player_time(top_by_time, caller, new_player.best_time[1])
                  /\ players' = MapInsert(players, caller, new_player)
                  /\ call' = returns(<<Player_get(got[1])>>)
      /\ UNCHANGED <<now, probe>>

\* Contract::finish_game called by `caller` with `array`.  `&&` evaluates
\* sudoku_eq only for a solved array, and sudoku_eq unwraps the record's sudoku:
\* a solved array sent by a caller with no active puzzle panics.
finish_game(caller, array) ==
  LET got == MapGet(players, caller)
      returns(v) == [op |-> "finish_game", caller |-> caller, array |-> array,
                     outcome |-> "return", value |-> v]
      same == UNCHANGED <<players, top_by_count, top_by_time>>
  IN  /\ IF got = << >>
         THEN same /\ call' = returns(<< >>)
         ELSE IF ~is_solved(from_two_dimensional_array(array))
         THEN same /\ call' = returns(<< >>)
         ELSE IF got[1].sudoku = << >>
         THEN same /\ call' = [returns(<< >>) EXCEPT !.outcome = "panic"]
         ELSE IF ~Player_sudoku_eq(got[1], array)
         THEN same /\ call' = returns(<< >>)
         ELSE LET new_player == Player_finish_game(got[1], now)
              IN  /\ top_by_count' \in
                       work_player_count(top_by_count, caller, new_player.sloved_sudoku_count)
                  /\ top_by_time' \in
                       work_player_time(top_by_time, caller, new_player.best_time[1])
                  /\ players' = MapInsert(players, caller, new_player)
                  /\ call' = returns(<<Player_get(got[1])>>)
      /\ UNCHANGED <<now, probe>>

\* Contract::check_sloved
check_sloved(array) ==
  /\ call' = [op |-> "check_sloved", caller |-> 0, array |-> array, outcome |-> "return",
              value |-> <<is_solved(from_two_dimensional_array(array))>>]
  /\ UNCHANGED <<players, top_by_count, top_by_time, now, probe>>

\* Contract::delete_player
delete_player(caller) ==
  /\ players' = MapRemove(players, caller)
  /\ call' = [op |-> "delete_player", caller |-> caller, array |-> << >>,
              outcome |-> "return", value |-> << >>]
  /\ UNCHANGED <<top_by_count, top_by_time, now, probe>>

\* the block timestamp advances between calls
Tick ==
  /\ now' = now + 1
  /\ UNCHANGED <<players, top_by_count, top_by_time, call, probe>>

(***************************************************************************)
(* Probes of the pure functions                                            *)
(***************************************************************************)

ProbeCell(c) ==
  /\ probe' = [kind |-> "cell", cell |-> c,
               row |-> Cell_row(c), col |-> Cell_col(c), block |-> Cell_block(c),
               houses |-> Cell_houses(c),
               neighbors |-> Cell_neighbors(c),
               neighbors_set |-> Cell_neighbors_set(c),
               row_back |-> Row_cell_at(Cell_row(c), Cell_row_pos(c)),
               col_back |-> Col_cell_at(Cell_col(c), Cell_col_pos(c)),
               block_back |-> Block_cell_at(Cell_block(c), Cell_block_pos(c))]
  /\ UNCHANGED <<players, top_by_count, top_by_time, now, call>>

ProbeHouse(h) ==
  /\ probe' = [kind |-> "house", house |-> h, cells |-> House_cells(h)]
  /\ UNCHANGED <<players, top_by_count, top_by_time, now, call>>

\* cell_at of the house h (a row, a column or a block) at position pos
ProbeCellAt(h, pos) ==
  /\ probe' = [kind |-> "cell_at", house |-> h, pos |-> pos,
               cell |-> House_cell_at(h, pos), cells |-> House_cells(h)]
  /\ UNCHANGED <<players, top_by_count, top_by_time, now, call>>

\* a board sent through the flat-array interchange and back
ProbeInterchange(b) ==
  /\ probe' = [kind |-> "interchange", board |-> b,
               array |-> to_two_dimensional_array(b),
               back |-> from_two_dimensional_array(to_two_dimensional_array(b))]
  /\ UNCHANGED <<players, top_by_count, top_by_time, now, call>>

\* the cells of a row, column, band or stack, as a set and as iterated
ProbeRow(r) ==
  /\ probe' = [kind |-> "row", index |-> r, cells |-> Row_cells(r),
               iter |-> Set_iter(Row_cells(r))]
  /\ UNCHANGED <<players, top_by_count, top_by_time, now, call>>

ProbeCol(c) ==
  /\ probe' = [kind |-> "col", index |-> c, cells |-> Col_cells(c),
               iter |-> Set_iter(Col_cells(c))]
  /\ UNCHANGED <<players, top_by_count, top_by_time, now, call>>

ProbeBand(b) ==
  /\ probe' = [kind |-> "band", index |-> b, cells |-> Band_cells(b),
               iter |-> Set_iter(Band_cells(b))]
  /\ UNCHANGED <<players, top_by_count, top_by_time, now, call>>

ProbeStack(s) ==
  /\ probe' = [kind |-> "stack", index |-> s, cells |-> Stack_cells(s),
               iter |-> Set_iter(Stack_cells(s))]
  /\ UNCHANGED <<players, top_by_count, top_by_time, now, call>>

\* the three descriptions of a block: its mask, the BLOCK table, CELLS_BY_HOUSE
ProbeBlock(b) ==
  /\ probe' = [kind |-> "block", index |-> b, cells |-> Block_cells(b),
               by_table |-> {c \in Cells : block(c) = b},
               by_conversion |-> {c \in Cells : Cell_block(c) = b},
               house_row |-> CELLS_BY_HOUSE[Block_house(b) + 1]]
  /\ UNCHANGED <<players, top_by_count, top_by_time, now, call>>

\* the block of a cell: by the BLOCK table and by Block::from(Cell)
ProbeBlockOf(c) ==
  /\ probe' = [kind |-> "block_of", cell |-> c, by_table |-> block(c),
               by_conversion |-> Cell_block(c),
               by_mask |-> {b \in Positions : c \in Block_cells(b)}]
  /\ UNCHANGED <<players, top_by_count, top_by_time, now, call>>

\* a row, a column and a block of the same index, embedded and categorized
ProbeEmbed(i) ==
  /\ probe' = [kind |-> "embed", index |-> i,
               houses |-> <<Row_house(i), Col_house(i), Block_house(i)>>,
               house_types |-> <<House_categorize(Row_house(i)),
                                 House_categorize(Col_house(i)),
                                 House_categorize(Block_house(i))>>,
               lines |-> <<Row_line(i), Col_line(i)>>,
               line_types |-> <<Line_categorize(Row_line(i)),
                                Line_categorize(Col_line(i))>>]
  /\ UNCHANGED <<players, top_by_count, top_by_time, now, call>>

\* a band and a stack of the same index, embedded and categorized
ProbeEmbedChute(i) ==
  /\ probe' = [kind |-> "embed_chute", index |-> i,
               chutes |-> <<Band_chute(i), Stack_chute(i)>>,
               chute_types |-> <<Chute_categorize(Band_chute(i)),
                                 Chute_categorize(Stack_chute(i))>>]
  /\ UNCHANGED <<players, top_by_count, top_by_time, now, call>>

\* a miniline, its neighbours and their cells
ProbeMiniLine(ml) ==
  LET n == MiniLine_neighbors(ml)
  IN  /\ probe' = [kind |-> "miniline", index |-> ml,
                   type |-> MiniLine_categorize(ml),
                   cells |-> MiniLine_cells(ml),
                   chute |-> MiniLine_chute(ml),
                   line_neighbors |-> n[1],
                   block_neighbors |-> n[2],
                   line_cells |-> <<MiniLine_cells(n[1][1]), MiniLine_cells(n[1][2])>>,
                   block_cells |-> <<MiniLine_cells(n[2][1]), MiniLine_cells(n[2][2])>>]
      /\ UNCHANGED <<players, top_by_count, top_by_time, now, call>>

\* the minilines of a chute, their cells and their chutes
ProbeChute(ch) ==
  LET m == Chute_minilines(ch)
  IN  /\ probe' = [kind |-> "chute", index |-> ch, cells |-> Chute_cells(ch),
                   minilines |-> m,
                   miniline_cells |-> [i \in 1 .. 9 |-> MiniLine_cells(m[i])],
                   miniline_chutes |-> [i \in 1 .. 9 |-> MiniLine_chute(m[i])]]
      /\ UNCHANGED <<players, top_by_count, top_by_time, now, call>>

NextGeom ==
  /\ \/ \E c \in Cells : ProbeCell(c)
     \/ \E h \in Houses : ProbeHouse(h)
     \/ \E h \in Houses, pos \in Positions : ProbeCellAt(h, pos)
     \/ \E r \in Positions : ProbeRow(r)
     \/ \E c \in Positions : ProbeCol(c)
     \/ \E b \in 0 .. 2 : ProbeBand(b)
     \/ \E st \in 0 .. 2 : ProbeStack(st)
     \/ \E b \in Positions : ProbeBlock(b)
     \/ \E c \in Cells : ProbeBlockOf(c)
     \/ \E i \in Positions : ProbeEmbed(i)
     \/ \E i \in 0 .. 2 : ProbeEmbedChute(i)
     \/ \E ml \in MiniLines : ProbeMiniLine(ml)
     \/ \E ch \in Chutes : ProbeChute(ch)
  /\ UNCHANGED steps

SpecGeom == Init /\ [][NextGeom]_vars

(***************************************************************************)
(* Construction of grouping values: define_types!                          *)
(***************************************************************************)

\* the limits of define_types!
Limit ==
  [Cell |-> 81, Row |-> 9, Col |-> 9, Block |-> 9, Line |-> 18, House |-> 27,
   MiniRow |-> 27, MiniCol |-> 27, MiniLine |-> 54, Band |-> 3, Stack |-> 3,
   Chute |-> 6]

GroupingTypes == DOMAIN Limit

\* u8
U8 == 0 .. 255

\* $name::new(num): debug_assert!(num < $limit) panics only in a build with
\* debug assertions; without them the assertion is compiled out
new(type, num, debug_assertions) ==
  IF debug_assertions /\ ~(num < Limit[type])
  THEN [outcome |-> "panic", value |-> << >>]
  ELSE [outcome |-> "return", value |-> <<num>>]

\* $name::new_checked(num)
new_checked(type, num) == IF num < Limit[type] THEN <<num>> ELSE << >>

\* a grouping type and a number are drawn; new and new_checked are applied
InitNew ==
  /\ players = EmptyMap
  /\ top_by_count = EmptyMap
  /\ top_by_time = EmptyMap
  /\ now = 0
  /\ call = NoCall
  /\ probe \in {[kind |-> "number", type |-> t, num |-> n] : t \in GroupingTypes, n \in U8}
  /\ steps = 0

ProbeNew(debug_assertions) ==
  /\ probe.kind = "number"
  /\ probe' = [kind |-> "new", type |-> probe.type, num |-> probe.num,
               debug_assertions |-> debug_assertions,
               result |-> new(probe.type, probe.num, debug_assertions)]
  /\ UNCHANGED <<players, top_by_count, top_by_time, now, call, steps>>

ProbeNewChecked ==
  /\ probe.kind = "number"
  /\ probe' = [kind |-> "new_checked", type |-> probe.type, num |-> probe.num,
               result |-> new_checked(probe.type, probe.num)]
  /\ UNCHANGED <<players, top_by_count, top_by_time, now, call, steps>>

NextNew ==
  \/ \E debug_assertions \in BOOLEAN : ProbeNew(debug_assertions)
  \/ ProbeNewChecked

SpecNew == InitNew /\ [][NextNew]_vars

\* Boards and arrays for the interchange and the validity check: every change
\* of one cell of a solved grid to any of 0..9, grids blank from a row on, a
\* second solved grid, and two grids whose rows and columns are permutations
\* while their blocks are not.
LatinGrid == [i \in 1 .. 81 |-> ((((i - 1) \div 9) + ((i - 1) % 9)) % 9) + 1]

RowsSwapped ==
  [i \in 1 .. 81 |->
     IF i <= 9 THEN FullGrid1[i + 27]
     ELSE IF i \in 28 .. 36 THEN FullGrid1[i - 27]
     ELSE FullGrid1[i]]

BlankFrom(k) == [i \in 1 .. 81 |-> IF i > 9 * k THEN 0 ELSE FullGrid1[i]]

BoardPool ==
  {Place(FullGrid1, c, v) : c \in Cells, v \in 0 .. 9}
    \cup {BlankFrom(k) : k \in 0 .. 9}
    \cup {FullGrid2, LatinGrid, RowsSwapped}

\* a board of the pool is drawn; it is checked, and sent through the interchange
InitGrid ==
  /\ players = EmptyMap
  /\ top_by_count = EmptyMap
  /\ top_by_time = EmptyMap
  /\ now = 0
  /\ call = NoCall
  /\ probe \in {[kind |-> "board", board |-> b] : b \in BoardPool}
  /\ steps = 0

NextGrid ==
  /\ \/ check_sloved(to_two_dimensional_array(probe.board))
     \/ ProbeInterchange(probe.board)
  /\ UNCHANGED steps

SpecGrid == InitGrid /\ [][NextGrid]_vars

(***************************************************************************)
(* Callers of the contract                                                 *)
(***************************************************************************)

Deposits == {0, PLAYER_SIZE}

Registered(a) == a \in DOMAIN players

Active(a) == Registered(a) /\ players[a].sudoku # << >>

Solved(a) == IF Registered(a) THEN players[a].sloved_sudoku_count ELSE 0

Generated(a) == IF Registered(a) THEN players[a].generated_sudoku_count ELSE 0

\* the generator: one caller, every seed
InitGen ==
  /\ players = EmptyMap
  /\ top_by_count = EmptyMap
  /\ top_by_time = EmptyMap
  /\ now = 0
  /\ call = NoCall
  /\ probe \in {[kind |-> "seed", seed |-> s] : s \in AllSeeds}
  /\ steps = 0

NextGen ==
  /\ Generated(1) < 2
  /\ start_game(1, probe.seed, PLAYER_SIZE)
  /\ UNCHANGED steps

SpecGen == InitGen /\ [][NextGen]_vars

\* FullGrid1 with the digits of cells 3, 4, 30, 31 exchanged: solved as well
TwinGrid1 ==
  [i \in 1 .. 81 |->
     IF i \in {4, 32} THEN 7 ELSE IF i \in {5, 31} THEN 6 ELSE FullGrid1[i]]

MainSeeds == {[grid |-> 1, order |-> <<3, 4, 30, 31>>], [grid |-> 1, order |-> <<0>>]}

MainArrays ==
  {to_two_dimensional_array(b) : b \in {FullGrid1, TwinGrid1, BlankFrom(8)}}

MainAccounts == 1 .. MainCallers

\* one more step of a history of at most MaxCalls steps
Step ==
  /\ steps < MaxCalls
  /\ steps' = steps + 1

\* a few callers, any interleaving of their calls and of the clock
Next ==
  \/ \E a \in MainAccounts, seed \in MainSeeds, deposit \in Deposits :
       Step /\ start_game(a, seed, deposit)
  \/ \E a \in MainAccounts, array \in MainArrays : Step /\ finish_game(a, array)
  \/ \E a \in MainAccounts : Step /\ delete_player(a)
  \/ Step /\ Tick

Spec == Init /\ [][Next]_vars

(***************************************************************************)
(* A league: more accounts than the leaderboard holds.  Games are played   *)
(* one at a time.  The accounts 1 .. LEADERBOARD_SIZE first play WarmGames *)
(* games each, one account after the other, which fills the leaderboard;   *)
(* an account of these whose record is deleted later does so again.  After *)
(* that any account plays, an account of 2 .. LEADERBOARD_SIZE only while  *)
(* the account before it has more solved games (these accounts are         *)
(* interchangeable); steps counts these late games and the deletions, at   *)
(* most MaxLateGames together.  Account a takes a milliseconds for each of *)
(* its games, so the best times of different accounts differ.              *)
(***************************************************************************)

LeagueSeed == [grid |-> 1, order |-> <<0>>]

LeagueArrays == {to_two_dimensional_array(b) : b \in {FullGrid1, BlankFrom(8)}}

Warming == {a \in 1 .. LEADERBOARD_SIZE : Solved(a) < WarmGames}

LeagueStart(a) ==
  /\ \A b \in Accounts : ~Active(b)
  /\ IF Warming # {}
     THEN /\ a \in Warming
          /\ \A b \in Warming : a <= b
          /\ UNCHANGED steps
     ELSE /\ a \in 2 .. LEADERBOARD_SIZE => Solved(a - 1) > Solved(a)
          /\ steps < MaxLateGames
          /\ steps' = steps + 1
  /\ start_game(a, LeagueSeed, PLAYER_SIZE)

Elapsed(a) == now - players[a].start_time

LeagueFinish(a) ==
  /\ Active(a)
  /\ Elapsed(a) = a
  /\ \E array \in LeagueArrays : finish_game(a, array)
  /\ UNCHANGED steps

\* between two late games, an account among the first MaxDeleters or the last
\* one deletes its record
LeagueDelete(a) ==
  /\ a <= MaxDeleters \/ a = LEADERBOARD_SIZE + ExtraAccounts
  /\ Registered(a)
  /\ Warming = {}
  /\ \A b \in Accounts : ~Active(b)
  /\ steps < MaxLateGames
  /\ steps' = steps + 1
  /\ delete_player(a)

LeagueTick ==
  /\ \E a \in Accounts : Active(a) /\ Elapsed(a) < a
  /\ Tick
  /\ UNCHANGED steps

NextLeague ==
  \/ \E a \in Accounts : LeagueStart(a)
  \/ \E a \in Accounts : LeagueFinish(a)
  \/ LeagueTick

SpecLeague == Init /\ [][NextLeague]_vars

NextLeagueD ==
  \/ NextLeague
  \/ \E a \in Accounts : LeagueDelete(a)

SpecLeagueD == Init /\ [][NextLeagueD]_vars

(***************************************************************************)
(* The claims                                                              *)
(***************************************************************************)

\* a 9x9 array is a valid solved grid: every entry is in 1..9 and every row,
\* column and block holds every digit exactly once (stated on the array itself)
Once(d, vals) == Cardinality({i \in DOMAIN vals : vals[i] = d}) = 1

ArrayRow(array, r) == [c \in 1 .. 9 |-> array[r][c]]

ArrayCol(array, c) == [r \in 1 .. 9 |-> array[r][c]]

ArrayBlock(array, b) ==
  [k \in 1 .. 9 |->
     array[3 * ((b - 1) \div 3) + ((k - 1) \div 3) + 1][3 * ((b - 1) % 3) + ((k - 1) % 3) + 1]]

ValidSolvedArray(array) ==
  /\ \A r \in 1 .. 9, c \in 1 .. 9 : array[r][c] \in 1 .. 9
  /\ \A g \in 1 .. 9, d \in Digits :
       /\ Once(d, ArrayRow(array, g))
       /\ Once(d, ArrayCol(array, g))
       /\ Once(d, ArrayBlock(array, g))

\* C1: check_sloved(grid) returns true if and only if every entry of the grid is
\* in 1..9 and each row, column and block contains every digit exactly once.
C1_check_sloved_iff_valid ==
  call.op = "check_sloved" => (call.value[1] <=> ValidSolvedArray(call.array))

\* a grid without blanks whose rows and columns are permutations was refused
C1_witness ==
  /\ call.op = "check_sloved"
  /\ call.value[1] = FALSE
  /\ \A g \in 1 .. 9, d \in Digits :
       Once(d, ArrayRow(call.array, g)) /\ Once(d, ArrayCol(call.array, g))

\* the array agrees with the puzzle on every clue of the puzzle
AgreesOnClues(puzzle, array) ==
  \A r \in 1 .. 9, c \in 1 .. 9 :
    puzzle[9 * (r - 1) + c] # 0 => array[r][c] = puzzle[9 * (r - 1) + c]

\* C2: finish_game credits the caller only when the submitted grid agrees with
\* the caller's stored puzzle on every clue of that puzzle (the puzzle of a
\* credited game is the one kept in last_sloved_game).
C2_credit_requires_agreement ==
  (call.op = "finish_game" /\ call.outcome = "return" /\ call.value # << >>) =>
    AgreesOnClues(players[call.caller].last_sloved_game[1].sudoku, call.array)

\* C3: the neighbour list of a cell has exactly 20 distinct cells, does not
\* contain the cell, and is as a set equal to neighbors_set, the cells of the
\* cell's row, column and block without the cell itself.
C3_neighbors ==
  probe.kind = "cell" =>
    /\ Len(probe.neighbors) = 20
    /\ Cardinality(Range(probe.neighbors)) = 20
    /\ probe.cell \notin Range(probe.neighbors)
    /\ Range(probe.neighbors) = probe.neighbors_set
    /\ probe.neighbors_set =
         {d \in Cells :
            /\ d # probe.cell
            /\ \/ d \div 9 = probe.cell \div 9
               \/ d % 9 = probe.cell % 9
               \/ /\ d \div 27 = probe.cell \div 27
                  /\ (d % 9) \div 3 = (probe.cell % 9) \div 3}

C3_witness == probe.kind = "cell" /\ probe.cell = 40 /\ 80 \notin probe.neighbors_set

\* C4: every house has exactly 9 cells, and exactly three houses contain a
\* given cell: one row, one column and one block, the three of Cell::houses.
C4_houses ==
  /\ probe.kind = "house" =>
       Cardinality(probe.cells) = 9 /\ probe.cells \subseteq Cells
  /\ probe.kind = "cell" =>
       LET mine == {h \in Houses : probe.cell \in House_cells(h)}
       IN  /\ mine = Range(probe.houses)
           /\ Cardinality(mine) = 3
           /\ Cardinality(mine \cap (0 .. 8)) = 1
           /\ Cardinality(mine \cap (9 .. 17)) = 1
           /\ Cardinality(mine \cap (18 .. 26)) = 1
           /\ probe.houses[1] \in 0 .. 8
           /\ probe.houses[2] \in 9 .. 17
           /\ probe.houses[3] \in 18 .. 26

C4_witness == probe.kind = "cell" /\ probe.cell = 50 /\ probe.houses = <<5, 14, 22>>

\* C5: for every cell the row, column and block conversions round-trip through
\* cell_at, and cell_at of a row, column or block at a position is a cell of
\* that grouping, different positions giving different cells.
C5_round_trip ==
  /\ probe.kind = "cell" =>
       /\ probe.row_back = probe.cell
       /\ probe.col_back = probe.cell
       /\ probe.block_back = probe.cell
  /\ probe.kind = "cell_at" =>
       /\ probe.cell \in probe.cells
       /\ \A q \in Positions \ {probe.pos} : House_cell_at(probe.house, q) # probe.cell

C5_witness ==
  probe.kind = "cell_at" /\ probe.house = 22 /\ probe.pos = 5 /\ probe.cell = 41

\* C6: the puzzle start_game stores has exactly one solution: the solver's
\* solution count capped at 2 is 1, and solution() is Some.
C6_generated_unique ==
  \A a \in DOMAIN players :
    players[a].sudoku # << >> =>
      /\ CountSolutions(players[a].sudoku[1], 2) = 1
      /\ solution(players[a].sudoku[1]) # << >>

\* a stored puzzle for which the generator had to keep a cell: clearing the
\* fourth cell of the rectangle 3, 4, 30, 31 would have allowed two solutions
C6_witness ==
  /\ 1 \in DOMAIN players
  /\ players[1].sudoku # << >>
  /\ probe.seed.order = <<3, 4, 30, 31>>
  /\ Unplaced(players[1].sudoku[1]) = {3, 4, 30}

\* C7: the interchange round-trips, from(to(b)) = b, the array being row-major
\* (entry [r][c] is cell 9r + c) with 0 for a blank cell.
C7_interchange_round_trip ==
  probe.kind = "interchange" =>
    /\ probe.back = probe.board
    /\ \A r \in 0 .. 8, c \in 0 .. 8 : probe.array[r + 1][c + 1] = probe.board[9 * r + c + 1]

C7_witness ==
  probe.kind = "interchange" /\ probe.board = BlankFrom(4) /\ probe.array[5][1] = 0

\* C8: top_by_count and top_by_time each hold at most LEADERBOARD_SIZE entries.
C8_leaderboard_bounded ==
  /\ Cardinality(DOMAIN top_by_count) <= LEADERBOARD_SIZE
  /\ Cardinality(DOMAIN top_by_time) <= LEADERBOARD_SIZE

\* the full leaderboard took in the account that came last, and it still lists
\* an account whose record was deleted
C8_witness ==
  /\ Cardinality(DOMAIN top_by_count) = LEADERBOARD_SIZE
  /\ Cardinality(DOMAIN top_by_time) = LEADERBOARD_SIZE
  /\ (LEADERBOARD_SIZE + 1) \in DOMAIN top_by_count
  /\ \E a \in DOMAIN top_by_count : a \notin DOMAIN players

\* C9: no registered account that is absent from top_by_count has a strictly
\* larger sloved_sudoku_count than an account that is present in it.
C9_top_by_count_is_top ==
  \A a \in (DOMAIN players) \ (DOMAIN top_by_count) :
    \A b \in (DOMAIN players) \cap (DOMAIN top_by_count) :
      players[a].sloved_sudoku_count <= players[b].sloved_sudoku_count

\* C10: finish_game with the solution of the caller's active puzzle is accepted,
\* and the record stored afterwards has no sudoku, one more solved game, the
\* same number of generated games, and last_sloved_game holding the puzzle with
\* the previous start_time as time_start and the block timestamp as time_end.
C10_finish_credits ==
  [][LET a == call'.caller
         array == call'.array
     IN  (/\ call'.op = "finish_game"
          /\ Active(a)
          /\ finish_game(a, array)
          /\ solution(players[a].sudoku[1]) = <<from_two_dimensional_array(array)>>)
         =>
         (/\ call'.outcome = "return"
          /\ call'.value # << >>
          /\ a \in DOMAIN players'
          /\ players'[a].sudoku = << >>
          /\ players'[a].sloved_sudoku_count = players[a].sloved_sudoku_count + 1
          /\ players'[a].generated_sudoku_count = players[a].generated_sudoku_count
          /\ players'[a].last_sloved_game =
               <<[sudoku |-> players[a].sudoku[1],
                  time_start |-> players[a].start_time,
                  time_end |-> now]>>)]_vars

\* a game that took some time was credited
C10_witness ==
  /\ call.op = "finish_game"
  /\ call.value # << >>
  /\ call.array = to_two_dimensional_array(FullGrid1)
  /\ players[call.caller].sudoku = << >>
  /\ players[call.caller].sloved_sudoku_count = 1
  /\ players[call.caller].last_sloved_game[1].time_end >
       players[call.caller].last_sloved_game[1].time_start

\* C11: the masks of rows, columns, bands and stacks equal the reference
\* enumerations, and iterating them yields the cells in ascending order: row r
\* is 9r .. 9r+8, column c is c, c+9, .., c+72, band b is 27b .. 27b+26, and
\* stack s is 9*row+3s, 9*row+3s+1, 9*row+3s+2 for row in 0..8.
C11_closed_form_masks ==
  /\ probe.kind = "row" =>
       probe.iter = [k \in 1 .. 9 |-> (9 * probe.index) + (k - 1)]
  /\ probe.kind = "col" =>
       probe.iter = [k \in 1 .. 9 |-> probe.index + (9 * (k - 1))]
  /\ probe.kind = "band" =>
       probe.iter = [k \in 1 .. 27 |-> (27 * probe.index) + (k - 1)]
  /\ probe.kind = "stack" =>
       probe.iter =
         [k \in 1 .. 27 |-> (9 * ((k - 1) \div 3)) + (3 * probe.index) + ((k - 1) % 3)]
  /\ probe.kind \in {"row", "col", "band", "stack"} =>
       Range(probe.iter) = probe.cells /\ Len(probe.iter) = Cardinality(probe.cells)

C11_witness ==
  probe.kind = "stack" /\ probe.index = 1 /\ probe.iter[4] = 12 /\ probe.iter[27] = 77

\* C12: the three definitions of block membership agree for every cell: the
\* table BLOCK[c], the conversion Block::from(Cell c) = 3*(c/27) + (c%9)/3 and
\* the mask Block::cells; the cells of block b are exactly the 9 cells c with
\* BLOCK[c] = b, and equal row 18+b of CELLS_BY_HOUSE.
C12_block_definitions_agree ==
  /\ probe.kind = "block_of" =>
       /\ probe.by_table = probe.by_conversion
       /\ probe.by_conversion = (3 * (probe.cell \div 27)) + ((probe.cell % 9) \div 3)
       /\ probe.by_mask = {probe.by_table}
  /\ probe.kind = "block" =>
       /\ Cardinality(probe.cells) = 9
       /\ probe.cells = probe.by_table
       /\ probe.cells = probe.by_conversion
       /\ probe.cells = Range(probe.house_row)
       /\ Len(probe.house_row) = 9

C12_witness ==
  /\ probe.kind = "block_of"
  /\ probe.cell = 33
  /\ probe.by_table = 5
  /\ probe.by_mask = {5}

\* C13: houses share one index space, rows at 0..8, columns at 9..17, blocks at
\* 18..26, and categorize inverts the embedding of every row, column and block,
\* so the three houses of a cell are pairwise different; the same holds for
\* Line (rows 0..8, columns 9..17) and Chute (bands 0..2, stacks 3..5).
C13_categorize_inverts_embedding ==
  /\ probe.kind = "embed" =>
       /\ probe.houses[1] \in 0 .. 8
       /\ probe.houses[2] \in 9 .. 17
       /\ probe.houses[3] \in 18 .. 26
       /\ probe.house_types =
            <<<<"Row", probe.index>>, <<"Col", probe.index>>, <<"Block", probe.index>>>>
       /\ probe.lines[1] \in 0 .. 8
       /\ probe.lines[2] \in 9 .. 17
       /\ probe.line_types = <<<<"Row", probe.index>>, <<"Col", probe.index>>>>
  /\ probe.kind = "embed_chute" =>
       /\ probe.chutes[1] \in 0 .. 2
       /\ probe.chutes[2] \in 3 .. 5
       /\ probe.chute_types = <<<<"Band", probe.index>>, <<"Stack", probe.index>>>>
  /\ probe.kind = "cell" =>
       /\ probe.houses[1] # probe.houses[2]
       /\ probe.houses[1] # probe.houses[3]
       /\ probe.houses[2] # probe.houses[3]

C13_witness ==
  /\ probe.kind = "embed"
  /\ probe.index = 4
  /\ probe.houses = <<4, 13, 22>>
  /\ probe.house_types[2] = <<"Col", 4>>

\* C14: the neighbours of a miniline are two line neighbours and two block
\* neighbours, all four distinct and different from the miniline; the miniline
\* and its line neighbours make up one row (mini-row) or one column (mini-col),
\* and the miniline and its block neighbours make up one block.
C14_miniline_neighbors ==
  probe.kind = "miniline" =>
    LET four == probe.line_neighbors \o probe.block_neighbors
        in_line == probe.cells \cup probe.line_cells[1] \cup probe.line_cells[2]
        in_block == probe.cells \cup probe.block_cells[1] \cup probe.block_cells[2]
    IN  /\ Len(probe.line_neighbors) = 2
        /\ Len(probe.block_neighbors) = 2
        /\ Range(four) \subseteq MiniLines
        /\ Cardinality(Range(four)) = 4
        /\ probe.index \notin Range(four)
        /\ IF probe.index < 27
           THEN \E r \in 0 .. 8 : in_line = {c \in Cells : c \div 9 = r}
           ELSE \E k \in 0 .. 8 : in_line = {c \in Cells : c % 9 = k}
        /\ \E b \in 0 .. 8 :
             in_block = {c \in Cells : (3 * (c \div 27)) + ((c % 9) \div 3) = b}

C14_witness ==
  /\ probe.kind = "miniline"
  /\ probe.index = 30
  /\ probe.type = <<"MiniCol", 3>>
  /\ probe.cells = {1, 10, 19}

\* C15: each of the 54 minilines owns exactly 3 cells, the intersection of one
\* block with one row (minilines 0..26) or one column (27..53); the 27
\* mini-rows partition the 81 cells and so do the 27 mini-cols; the 9
\* minilines of Chute::minilines(ch) cover exactly ch.cells(), and
\* MiniLine::chute maps each of them back to ch.
C15_minilines ==
  /\ probe.kind = "miniline" =>
       /\ Cardinality(probe.cells) = 3
       /\ probe.cells \subseteq Cells
       /\ \E b \in 0 .. 8, l \in 0 .. 8 :
            probe.cells =
              {c \in Cells :
                 /\ (3 * (c \div 27)) + ((c % 9) \div 3) = b
                 /\ IF probe.index < 27 THEN c \div 9 = l ELSE c % 9 = l}
       /\ \A o \in (IF probe.index < 27 THEN 0 .. 26 ELSE 27 .. 53) :
            o # probe.index => MiniLine_cells(o) \cap probe.cells = {}
  /\ probe.kind = "chute" =>
       /\ Len(probe.minilines) = 9
       /\ UNION {probe.miniline_cells[i] : i \in 1 .. 9} = probe.cells
       /\ \A i \in 1 .. 9 : probe.miniline_chutes[i] = probe.index
       /\ probe.cells =
            (IF probe.index < 3
             THEN {c \in Cells : c \div 27 = probe.index}
             ELSE {c \in Cells : (c % 9) \div 3 = probe.index - 3})
  /\ probe.kind \in {"miniline", "chute"} =>
       /\ UNION {MiniLine_cells(m) : m \in 0 .. 26} = Cells
       /\ UNION {MiniLine_cells(m) : m \in 27 .. 53} = Cells

C15_witness ==
  /\ probe.kind = "chute"
  /\ probe.index = 4
  /\ probe.minilines[1] = 36
  /\ probe.miniline_cells[1] = {3, 12, 21}
  /\ probe.miniline_chutes[9] = 4

\* C16: for every grouping type with limit L, new(num) panics whenever
\* num >= L and never yields a value holding an out-of-range index, and
\* new_checked(num) returns None exactly when num >= L and Some(num) otherwise.
C16_construction_fails_fast ==
  /\ probe.kind = "new" =>
       /\ probe.num >= Limit[probe.type] => probe.result.outcome = "panic"
       /\ probe.result.outcome = "return" =>
            probe.result.value = <<probe.num>> /\ probe.num < Limit[probe.type]
  /\ probe.kind = "new_checked" =>
       probe.result = (IF probe.num >= Limit[probe.type] THEN << >> ELSE <<probe.num>>)

\* C17: the PlayerRequest returned by a successful start_game or finish_game
\* is the view of the caller's record as stored after the call, for first-time
\* and for already registered callers.
C17_returns_stored_record ==
  (/\ call.op \in {"start_game", "finish_game"}
   /\ call.outcome = "return"
   /\ call.value # << >>)
  => (/\ call.caller \in DOMAIN players
      /\ call.value[1] = Player_get(players[call.caller]))

\* the grids the callers of Spec submit that are valid solved grids, computed once
ValidMainArrays == {array \in MainArrays : ValidSolvedArray(array)}

\* C18: no game is credited twice: every stored record has
\* sloved_sudoku_count <= generated_sudoku_count, and a finish_game call with a
\* solved grid by a caller whose record holds no active puzzle does not change
\* the record.
C18_no_double_credit ==
  /\ [](\A a \in DOMAIN players :
          players[a].sloved_sudoku_count <= players[a].generated_sudoku_count)
  /\ [][LET a == call'.caller
            array == call'.array
        IN  (/\ call'.op = "finish_game"
             /\ Registered(a)
             /\ ~Active(a)
             /\ array \in ValidMainArrays
             /\ finish_game(a, array))
            => (players' = players /\ call'.value = << >>)]_vars

\* a second finish_game with a solved grid, after the game was credited
C18_witness ==
  /\ call.op = "finish_game"
  /\ call.outcome = "panic"
  /\ call.array = to_two_dimensional_array(FullGrid1)
  /\ players[call.caller].sloved_sudoku_count = 1
  /\ players[call.caller].generated_sudoku_count = 1
  /\ players[call.caller].sudoku = << >>

\* C19: every account that is registered and present in top_by_count has its
\* top_by_count value equal to its record's sloved_sudoku_count, and every
\* account registered and present in top_by_time has its value equal to its
\* record's best_time.
C19_leaderboard_agrees_with_records ==
  /\ \A a \in (DOMAIN players) \cap (DOMAIN top_by_count) :
       top_by_count[a] = players[a].sloved_sudoku_count
  /\ \A a \in (DOMAIN players) \cap (DOMAIN top_by_time) :
       players[a].best_time = <<top_by_time[a]>>

\* C20: a rejected finish_game changes nothing: when the caller has no player
\* record, or the submitted grid is not a valid solved grid, finish_game
\* returns None and leaves players, top_by_count and top_by_time as they were.
C20_rejected_finish_changes_nothing ==
  [][LET a == call'.caller
         array == call'.array
     IN  (/\ call'.op = "finish_game"
          /\ ~Registered(a) \/ array \notin ValidMainArrays
          /\ finish_game(a, array))
         => (/\ call'.outcome = "return"
             /\ call'.value = << >>
             /\ players' = players
             /\ top_by_count' = top_by_count
             /\ top_by_time' = top_by_time)]_vars

\* a grid with blank cells was refused to a caller with an active puzzle and a
\* place on the leaderboard
C20_witness ==
  /\ call.op = "finish_game"
  /\ call.array = to_two_dimensional_array(BlankFrom(8))
  /\ call.value = << >>
  /\ Active(call.caller)
  /\ call.caller \in DOMAIN top_by_count

\* C21: a record's best_time is the minimum elapsed time over its credited
\* games: it is None exactly while sloved_sudoku_count = 0; after a credited
\* finish_game it is the lesser of the previous best_time and the block
\* timestamp minus the game's start_time; it never increases; and start_game
\* of a registered caller leaves best_time, sloved_sudoku_count and
\* last_sloved_game unchanged and adds exactly 1 to generated_sudoku_count.
C21_best_time_is_minimum ==
  /\ [](\A a \in DOMAIN players :
          (players[a].best_time = << >>) <=> (players[a].sloved_sudoku_count = 0))
  /\ [][LET a == call'.caller
            elapsed == now - players[a].start_time
            \* the step is a call (the clock stands still) that returned
            returned(op) == call'.op = op /\ call'.outcome = "return" /\ now' = now
        IN  /\ (returned("finish_game") /\ call'.value # << >>)
               => players'[a].best_time =
                    (IF players[a].best_time # << >> /\ players[a].best_time[1] <= elapsed
                     THEN players[a].best_time
                     ELSE <<elapsed>>)
            /\ (returned("start_game") /\ Registered(a))
               => (/\ players'[a].best_time = players[a].best_time
                   /\ players'[a].sloved_sudoku_count = players[a].sloved_sudoku_count
                   /\ players'[a].last_sloved_game = players[a].last_sloved_game
                   /\ players'[a].generated_sudoku_count =
                        players[a].generated_sudoku_count + 1)
            /\ \A b \in (DOMAIN players) \cap (DOMAIN players') :
                 players[b].best_time # << >> =>
                   /\ players'[b].best_time # << >>
                   /\ players'[b].best_time[1] <= players[b].best_time[1]]_vars

\* a second game that took longer than the first was credited, and the best
\* time stayed that of the first
C21_witness ==
  /\ call.op = "finish_game"
  /\ call.value # << >>
  /\ players[call.caller].sloved_sudoku_count = 2
  /\ players[call.caller].best_time = <<0>>
  /\ players[call.caller].last_sloved_game[1].time_end
       = players[call.caller].last_sloved_game[1].time_start + 1
====
